---- MODULE Spec2Model ----
(***************************************************************************)
(* The stock-market ETL of this repository: four programs that fetch       *)
(* daily, intraday and SMA series per symbol and load them incrementally   *)
(* into a relational store.                                                *)
(*   main_parallel.py         thread pool, PostgreSQL connection pool      *)
(*   main_parallel_duckdb.py  thread pool, DuckDB thread-local connections *)
(*   main.py                  sequential, PostgreSQL, one global cursor    *)
(*   main_duckdb.py           sequential, DuckDB, one global cursor        *)
(***************************************************************************)
EXTENDS Integers, Sequences, FiniteSets, Bags, TLC

(***************************************************************************)
(* Bounds of the model.                                                    *)
(***************************************************************************)
MaxDay == 2
MaxLen == 2
MaxVal == 2
MaxRuns == 2

(***************************************************************************)
(* Data: timestamps, payload entries, rows.                                *)
(***************************************************************************)
Endpoints == <<"TIME_SERIES_DAILY", "TIME_SERIES_INTRADAY", "SMA">>

EndpointSet == {Endpoints[i] : i \in 1..Len(Endpoints)}

\* Python's None and an optional value, as a sequence of length 0 or 1.
None == <<>>

Some(x) == <<x>>

\* A datetime as seconds; a date is the datetime of its midnight.
Instant(day, h, m, s) == ((day * 24 + h) * 60 + m) * 60 + s

\* The key strings of a payload: 'YYYY-MM-DD', 'YYYY-MM-DD HH:MM:SS', or a
\* string in neither format.
DateKey(d) == [fmt |-> "date", day |-> d, h |-> 0, m |-> 0, s |-> 0]

FullKey(d, hh, mm, ss) == [fmt |-> "full", day |-> d, h |-> hh, m |-> mm, s |-> ss]

BadKey == [fmt |-> "bad", day |-> 0, h |-> 0, m |-> 0, s |-> 0]

\* datetime.strptime(key, '%Y-%m-%d'): the datetime, or ValueError.
strptime_date(key) ==
    IF key.fmt = "date"
    THEN [exc |-> "none", dt |-> Instant(key.day, 0, 0, 0)]
    ELSE [exc |-> "ValueError", dt |-> 0]

\* datetime.strptime(key, '%Y-%m-%d %H:%M:%S'): the datetime, or ValueError.
strptime_full(key) ==
    IF key.fmt = "full"
    THEN [exc |-> "none", dt |-> Instant(key.day, key.h, key.m, key.s)]
    ELSE [exc |-> "ValueError", dt |-> 0]

\* The store's cast of a submitted string to DATE / TIMESTAMP.
CastTimestamp(str) == Instant(str.day, str.h, str.m, str.s)

\* The day, hour, minute and second of a datetime.
DayOf(dt) == dt \div (24 * 60 * 60)

HourOf(dt) == (dt \div (60 * 60)) % 24

MinuteOf(dt) == (dt \div 60) % 60

SecondOf(dt) == dt % 60

\* dt.strftime('%Y-%m-%d %H:%M:%S')
strftime_full(dt) == FullKey(DayOf(dt), HourOf(dt), MinuteOf(dt), SecondOf(dt))

\* dt.strftime('%Y-%m-%d 00:00:00')
strftime_midnight(dt) == FullKey(DayOf(dt), 0, 0, 0)

\* The field mapping of one entry, by what parsing its fields does:
\*   ok      every field present and numeric (v stands for the numbers)
\*   missing a required key is absent                    (KeyError)
\*   nonnum  a field is a non-numeric string             (ValueError)
\*   null    a field is a JSON null or not a string      (TypeError)
\*   notmap  the entry's value is not a mapping at all   (TypeError)
FieldKinds == {"ok", "missing", "nonnum", "null", "notmap"}

\* float(values['1. open']) ... int(values['5. volume']) / float(values['SMA'])
ParseFields(values) ==
    CASE values.kind = "ok" -> [exc |-> "none", v |-> values.v]
      [] values.kind = "missing" -> [exc |-> "KeyError", v |-> 0]
      [] values.kind = "nonnum" -> [exc |-> "ValueError", v |-> 0]
      [] OTHER -> [exc |-> "TypeError", v |-> 0]

(***************************************************************************)
(* The store: rows, the primary key and insert-or-ignore.                  *)
(***************************************************************************)
\* A row of a dataset table, keyed by (symbol, ts); v stands for its values.
\* A table is the bag of its rows.
Row(symbol, ts, v) == [symbol |-> symbol, ts |-> ts, v |-> v]

\* A table without a primary key: no key is ever found.
NoPrimaryKey(T, symbol, ts) == FALSE

\* Whether a row with this primary key is in the table.
HasKey(T, symbol, ts) == \E r \in BagToSet(T) : r.symbol = symbol /\ r.ts = ts

\* An insert that does not look for the key: the row is added as a copy.
InsertAlways(T, tuple) ==
    T (+) SetToBag({Row(tuple.symbol, CastTimestamp(tuple.date_time), tuple.v)})

\* An insert that replaces the row of a key already in the table.
InsertOrReplace(T, tuple) ==
    LET ts == CastTimestamp(tuple.date_time)
        kept == {r \in BagToSet(T) : ~(r.symbol = tuple.symbol /\ r.ts = ts)}
    IN  SetToBag(kept) (+) SetToBag({Row(tuple.symbol, ts, tuple.v)})

\* INSERT ... ON CONFLICT DO NOTHING / INSERT OR IGNORE of one tuple: the
\* string of the tuple is cast to the column's type, and a tuple whose key is
\* already in the table is ignored.
InsertOrIgnore(T, tuple) ==
    LET ts == CastTimestamp(tuple.date_time)
    IN  IF HasKey(T, tuple.symbol, ts)
        THEN T
        ELSE T (+) SetToBag({Row(tuple.symbol, ts, tuple.v)})

\* cursor.executemany(query, values_list): the tuples in order.
RECURSIVE executemany(_, _)
executemany(T, values_list) ==
    IF values_list = <<>>
    THEN T
    ELSE executemany(InsertOrIgnore(T, Head(values_list)), Tail(values_list))

\* Dataset tables without the foreign key: every batch is accepted.
NoForeignKey(companies, values_list) == TRUE

\* The foreign key of a dataset table to companies.
ForeignKeyOk(companies, values_list) ==
    \A i \in 1..Len(values_list) : values_list[i].symbol \in companies

\* The greatest element of a non-empty set of datetimes.
MaxOf(S) == CHOOSE x \in S : \A y \in S : y <= x

\* A watermark query without its WHERE clause.
check_last_date_of_table(T, symbol) ==
    LET ts == {r.ts : r \in BagToSet(T)}
    IN  IF ts = {} THEN None ELSE Some(MaxOf(ts))

\* SELECT MAX(date) / MAX(date_time) FROM table WHERE company_symbol = symbol,
\* then result[0] if result and result[0] else None.
check_last_date(T, symbol) ==
    LET ts == {r.ts : r \in {x \in BagToSet(T) : x.symbol = symbol}}
    IN  IF ts = {} THEN None ELSE Some(MaxOf(ts))

(***************************************************************************)
(* The writers of main_parallel.py and main_parallel_duckdb.py: the loop   *)
(* of process_daily_stock_prices, process_intraday_stock_prices and        *)
(* process_sma_indicators over the payload's entries.                      *)
(***************************************************************************)
\* One tuple of values_list: the symbol, the string submitted for the
\* timestamp column and the parsed numbers.
\* A tuple that carries the first symbol of the list, whatever the task's.
TupleOfFirstSymbol(symbol, str, v) ==
    [symbol |-> "AAPL", date_time |-> str, v |-> v]

Tuple(symbol, str, v) == [symbol |-> symbol, date_time |-> str, v |-> v]

\* What the loop body does with one entry: append a tuple, skip the entry
\* with a warning (except KeyError, ValueError), pass it by (continue), or
\* raise out of the loop.
Appended(t) == [act |-> "append", tuple |-> t]

Skip == [act |-> "skip", tuple |-> None]

Continue == [act |-> "continue", tuple |-> None]

Raise == [act |-> "raise", tuple |-> None]

\* A loop body whose except clause names ValueError only.
AppendFieldsValueError(symbol, str, values) ==
    LET f == ParseFields(values)
    IN  CASE f.exc = "none" -> Appended(Tuple(symbol, str, f.v))
          [] f.exc = "ValueError" -> Skip
          [] OTHER -> Raise

\* The tail of the loop body: the fields are parsed into the tuple.
AppendFields(symbol, str, values) ==
    LET f == ParseFields(values)
    IN  CASE f.exc = "none" -> Appended(Tuple(symbol, str, f.v))
          [] f.exc \in {"KeyError", "ValueError"} -> Skip
          [] OTHER -> Raise

\* A loop without the watermark test.
NoWatermarkFilter(dt, last_date) == FALSE

\* The watermark test of the loop body.
AtOrBelow(dt, last_date) == last_date # None /\ dt <= last_date[1]

\* process_daily_stock_prices, one entry.
daily_entry(symbol, e, last_date) ==
    LET p == strptime_date(e.key)
    IN  IF p.exc # "none" THEN Skip
        ELSE IF AtOrBelow(p.dt, last_date) THEN Continue
        ELSE AppendFields(symbol, e.key, e.values)

\* process_intraday_stock_prices, one entry.
intraday_entry(symbol, e, last_date) ==
    LET p == strptime_full(e.key)
    IN  IF p.exc # "none" THEN Skip
        ELSE IF AtOrBelow(p.dt, last_date) THEN Continue
        ELSE AppendFields(symbol, e.key, e.values)

\* main_parallel.py, process_sma_indicators: the full format first, then the
\* date-only format.
sma_parse_postgres(key) ==
    IF strptime_full(key).exc = "none" THEN strptime_full(key) ELSE strptime_date(key)

\* main_parallel_duckdb.py, process_sma_indicators: the date-only format
\* first, then the full format.
sma_parse_duckdb(key) ==
    IF strptime_date(key).exc = "none" THEN strptime_date(key) ELSE strptime_full(key)

\* main_parallel_duckdb.py: timestamp_str, the string stored for a parsed key.
timestamp_str(dt) ==
    IF HourOf(dt) # 0 \/ MinuteOf(dt) # 0
    THEN strftime_full(dt)
    ELSE strftime_midnight(dt)

\* process_sma_indicators, one entry, in each of the two programs.
sma_entry(prog, symbol, e, last_date) ==
    LET p == IF prog = "main_parallel" THEN sma_parse_postgres(e.key)
                                     ELSE sma_parse_duckdb(e.key)
    IN  IF p.exc # "none" THEN Skip
        ELSE IF AtOrBelow(p.dt, last_date) THEN Continue
        ELSE IF prog = "main_parallel"
             THEN AppendFields(symbol, e.key, e.values)
             ELSE AppendFields(symbol, timestamp_str(p.dt), e.values)

\* The loop body of the endpoint's writer.
entry_step(prog, endpoint, symbol, e, last_date) ==
    CASE endpoint = "TIME_SERIES_DAILY" -> daily_entry(symbol, e, last_date)
      [] endpoint = "TIME_SERIES_INTRADAY" -> intraday_entry(symbol, e, last_date)
      [] OTHER -> sma_entry(prog, symbol, e, last_date)

\* The loop: values_list after the entries of series, or the exception that
\* left the loop (values_list is then dropped with the frame).
RECURSIVE build_values_list(_, _, _, _, _, _)
build_values_list(prog, endpoint, symbol, series, last_date, acc) ==
    IF series = <<>>
    THEN [exc |-> "none", values_list |-> acc]
    ELSE LET o == entry_step(prog, endpoint, symbol, Head(series), last_date)
         IN  CASE o.act = "raise" -> [exc |-> "TypeError", values_list |-> <<>>]
               [] o.act = "append" ->
                    build_values_list(prog, endpoint, symbol, Tail(series),
                                      last_date, Append(acc, o.tuple))
               [] OTHER ->
                    build_values_list(prog, endpoint, symbol, Tail(series),
                                      last_date, acc)

(***************************************************************************)
(* What the API answers a fetch with.                                      *)
(***************************************************************************)
\* The field mappings an entry can carry.
FieldValues ==
    {[kind |-> "ok", v |-> x] : x \in 1..MaxVal}
        \cup {[kind |-> k, v |-> 0] : k \in FieldKinds \ {"ok"}}

\* The entries over the key strings K and the field mappings F.
EntriesOf(K, F) == [key : K, values : F]

\* A JSON object has each key once.
DistinctKeys(series) ==
    \A i, j \in 1..Len(series) : i # j => series[i].key # series[j].key

\* The series of at most n entries drawn from E, in every order.
SeriesOf(E, n) ==
    {s \in UNION {[1..k -> E] : k \in 0..n} : DistinctKeys(s)}

\* The outcome of requests.get(...), raise_for_status() and response.json():
\*   RequestException  a network error, a timeout or an HTTP error status
\*   JSONDecodeError   the body is not JSON
\*   Error Message     the JSON carries 'Error Message'
\*   Note              the JSON carries the rate-limit 'Note'
\*   nokey             the JSON carries neither and not the endpoint's key
\*   data              the JSON carries the endpoint's key, with a series
Respond(kind, text, series) == [kind |-> kind, text |-> text, series |-> series]

\* The values of the 'Error Message' and 'Note' keys.
ErrorText == "Invalid API call."

NoteText == "API call frequency exceeded."

FailureResponses ==
    {Respond(k, "", <<>>) : k \in {"RequestException", "JSONDecodeError", "nokey"}}
        \cup {Respond("Error Message", ErrorText, <<>>), Respond("Note", NoteText, <<>>)}

ResponsesOf(E, n) ==
    FailureResponses \cup {Respond("data", "", s) : s \in SeriesOf(E, n)}

\* The dictionary fetch_api_data returns for a caught RequestException: {}.
EmptyJson == Respond("nokey", "", <<>>)

(***************************************************************************)
(* The state of main_parallel.py and main_parallel_duckdb.py.              *)
(***************************************************************************)
VARIABLES
    program,    \* which of the four programs runs
    symbols,    \* run_parallel_etl's list of symbols
    endpoints,  \* run_parallel_etl's list of endpoints
    max_workers,\* run_parallel_etl's max_workers
    run,        \* how many times the program has been started
    mainpc,     \* where main is
    db_pool,    \* whether the connection pool exists (main_parallel.py)
    created,    \* whether the four tables exist
    companies,  \* the companies table, a set of symbols
    tables,     \* the three dataset tables, each a set of rows
    ensured,    \* the ensure_company_exists calls that returned, and how
    task,       \* the frame of process_symbol_endpoint, per task
    results,    \* run_parallel_etl's results list
    last,       \* the frame of the call that returned last, as it returned
    api,        \* what the API answered each task last, once it has
    snapshot,   \* the tables as the current run found them
    faults,     \* the operations the store or the driver may fail in this run
    api_key,    \* whether ALPHA_VANTAGE_API_KEY is set in the environment
    conn,       \* the threads that hold an open connection of their own
    borrowed    \* the pool's connections in use, each with the call that holds it

\* What a run of the program never changes.
config == <<program, symbols, endpoints, max_workers, faults, api_key>>

vars ==
    <<program, symbols, endpoints, max_workers, faults, api_key, run, mainpc,
      db_pool, conn, created, companies, tables, ensured, task, results, last,
      api, snapshot, borrowed>>

\* tasks = [(symbol, endpoint) for symbol in symbols for endpoint in endpoints]
NumTasks(syms, ends) == Len(syms) * Len(ends)

SymbolIndex(t) == ((t - 1) \div Len(endpoints)) + 1

TaskSymbol(t) == symbols[SymbolIndex(t)]

TaskEndpoint(t) == endpoints[((t - 1) % Len(endpoints)) + 1]

\* The result dictionary of process_symbol_endpoint.
Result(symbol, endpoint, success, message) ==
    [symbol |-> symbol, endpoint |-> endpoint, success |-> success, message |-> message]

\* A task's frame: the task, where it is, what the HTTP call did (resp),
\* json_data, last_date, whether the watermark query raised, values_list,
\* the result once the function has returned, and the argument lists of the
\* insert calls it has made (batches). A frame lives from the start of the
\* call to its return.
Frame(t, pc, resp, json_data, last_date, wm_error, values_list, result) ==
    [t |-> t, pc |-> pc, resp |-> resp, json_data |-> json_data,
     last_date |-> last_date, wm_error |-> wm_error, values_list |-> values_list,
     result |-> result, batches |-> <<>>]

NewFrame(t, pc) == Frame(t, pc, None, None, None, FALSE, <<>>, None)

Running(t) == task[t].pc \in {"fetched", "query", "batch", "insert"}

\* The four programs.
Parallel == {"main_parallel", "main_parallel_duckdb"}

Sequential == {"main", "main_duckdb"}

\* The operations of the store that may fail.
FaultSites ==
    {"connect", "create_tables", "ensure_company", "check_last_date", "execute_batch"}

\* The outcomes of an operation: it succeeds, or it may fail in this run.
MayFail(op) == IF op \in faults THEN BOOLEAN ELSE {TRUE}

\* The state of a database the program is started on: empty, or loaded by
\* earlier runs up to day 1.
EmptyTables == [e \in EndpointSet |-> EmptyBag]

LoadedKey(e) == IF e = "TIME_SERIES_INTRADAY" THEN FullKey(1, 10, 0, 0) ELSE DateKey(1)

LoadedTables(syms) ==
    [e \in EndpointSet |->
        SetToBag({Row(syms[i], CastTimestamp(LoadedKey(e)), 1) : i \in 1..Len(syms)})]

\* Where main starts.
StartPc(prog) ==
    CASE prog = "main_parallel" -> "init_pool"
      [] prog = "main_parallel_duckdb" -> "create_tables"
      [] OTHER -> "connect"

InitWith(progs, syms, ends, workers, F, K) ==
    /\ program \in progs
    /\ symbols = syms
    /\ endpoints \in ends
    /\ max_workers \in workers
    /\ faults \in F
    /\ api_key \in K
    /\ run = 1
    /\ mainpc = StartPc(program)
    /\ db_pool = FALSE
    /\ conn = {}
    /\ borrowed = {}
    /\ \/ /\ created = FALSE
          /\ companies = {}
          /\ tables = EmptyTables
       \/ /\ created = TRUE
          /\ companies = {syms[i] : i \in 1..Len(syms)}
          /\ tables = LoadedTables(syms)
    /\ ensured = {}
    /\ task = [t \in 1..NumTasks(syms, endpoints) |-> NewFrame(t, "unsubmitted")]
    /\ results = <<>>
    /\ last = None
    /\ api = [t \in 1..NumTasks(syms, endpoints) |-> None]
    /\ snapshot = tables

(***************************************************************************)
(* main and run_parallel_etl of the two parallel programs.                 *)
(***************************************************************************)
\* The threads of the parallel programs: main's, and the workers of the
\* first and of the second executor of run_parallel_etl.
MainThread == "MainThread"

EnsureWorkers == "ThreadPoolExecutor-0"

TaskWorkers == "ThreadPoolExecutor-1"

\* main_parallel_duckdb.py, get_connection: a store call opens the calling
\* thread's connection if it has none and leaves it open. A call that failed
\* may have failed in duckdb.connect or after it. main_parallel.py borrows
\* from the pool and gives back.
get_connection(thread, ok) ==
    IF program # "main_parallel_duckdb" THEN {conn}
    ELSE IF ok THEN {conn \cup {thread}}
    ELSE {conn, conn \cup {thread}}

\* The threads of an executor have ended. Nothing in the program closes
\* their connections (close_thread_connection is never called): they go
\* with the thread's local storage when the runtime collects it, or stay.
threads_ended(thread) == {conn \ {thread}, conn}

\* The indices of the symbols whose ensure call has returned.
Ensured == {p.i : p \in ensured}

\* An ensure whose store error is not caught: it ends the run.
ensure_company_raises(ok) == IF ok THEN "phase1" ELSE "fatal"

\* ensure_company_exists: try / except Exception around the insert, and
\* run_parallel_etl's try around future.result(): the error is logged and
\* the run goes on.
ensure_company_exists(ok) == "phase1"

\* main: init_connection_pool(db_config, ...). A failure to connect leaves
\* main through its except and finally clauses, with no pool to close.
InitConnectionPool ==
    /\ mainpc = "init_pool"
    /\ \E ok \in MayFail("connect") :
          /\ db_pool' = ok
          /\ mainpc' = IF ok THEN "create_tables" ELSE "fatal"
    /\ UNCHANGED <<config, borrowed, run, conn, created, companies, tables, ensured,
                   task, results, last, api, snapshot>>

\* main: create_tables(), CREATE TABLE IF NOT EXISTS for the four tables. An
\* error leaves main through except (re-raised) and, in main_parallel.py,
\* finally: close_connection_pool().
CreateTables ==
    /\ mainpc = "create_tables"
    /\ \E ok \in MayFail("create_tables") :
          /\ created' = (created \/ ok)
          /\ mainpc' = IF ok THEN "phase1" ELSE "fatal"
          /\ db_pool' = (db_pool /\ ok)
          /\ \E c \in get_connection(MainThread, ok) : conn' = c
    /\ UNCHANGED <<config, borrowed, run, companies, tables, ensured, task,
                   results, last, api, snapshot>>

\* run_parallel_etl, first executor: ensure_company_exists(symbol) on a
\* worker. The insert-or-ignore may fail; the error is logged and dropped.
\* The executor starts the calls in order, max_workers at a time.
EnsureCompanyExists(i) ==
    /\ mainpc = "phase1"
    /\ i \in 1..Len(symbols)
    /\ i \notin Ensured
    /\ Cardinality({j \in 1..(i - 1) : j \notin Ensured}) < max_workers
    /\ \E ok \in MayFail("ensure_company") :
          /\ companies' = IF ok THEN companies \cup {symbols[i]} ELSE companies
          /\ ensured' = ensured \cup {[i |-> i, ok |-> ok]}
          /\ mainpc' = ensure_company_exists(ok)
          /\ \E c \in get_connection(EnsureWorkers, ok) : conn' = c
    /\ UNCHANGED <<config, borrowed, run, db_pool, created, tables, task,
                   results, last, api, snapshot>>

\* run_parallel_etl: the first executor has shut down; every task is
\* submitted to the second.
SubmitTasks ==
    /\ mainpc = "phase1"
    /\ Ensured = 1..Len(symbols)
    /\ mainpc' = "phase2"
    /\ task' = [t \in DOMAIN task |-> NewFrame(t, "queued")]
    /\ \E c \in threads_ended(EnsureWorkers) : conn' = c
    /\ UNCHANGED <<config, borrowed, run, db_pool, created, companies, tables,
                   ensured, results, last, api, snapshot>>

(***************************************************************************)
(* process_symbol_endpoint, on a worker of the second executor.            *)
(***************************************************************************)
\* What fetch_api_data returns for the HTTP outcome r, or the exception that
\* leaves it. requests.get and raise_for_status raise RequestException, which
\* is caught and answered with {}. response.json() raises a JSONDecodeError
\* that is a RequestException in some versions of requests and a plain
\* ValueError in others: caught tells which.
fetch_api_data(r, caught) ==
    CASE r.kind = "RequestException" -> [exc |-> "none", json_data |-> EmptyJson]
      [] r.kind = "JSONDecodeError" ->
            IF caught THEN [exc |-> "none", json_data |-> EmptyJson]
                      ELSE [exc |-> "JSONDecodeError", json_data |-> EmptyJson]
      [] OTHER -> [exc |-> "none", json_data |-> r]

\* Whether this version of requests makes the JSON error a RequestException.
Caught(r) == IF r.kind = "JSONDecodeError" THEN BOOLEAN ELSE {TRUE}

\* The answers the API may give task t: those of R, or with replay the
\* answer it gave the task before.
Answers(t, R, replay) ==
    IF replay /\ api[t] # None THEN {api[t][1]} ELSE R[TaskEndpoint(t)]

\* process_symbol_endpoint returns result: the frame ends, and the main
\* thread (as_completed) appends the result to results.
\* A collection that keeps the successful results only.
collect_successes(list, result) ==
    IF result.success THEN Append(list, result) ELSE list

\* results.append(result)
collect(list, result) == Append(list, result)

ReturnFrom(frame, success, message) ==
    LET result == Result(TaskSymbol(frame.t), TaskEndpoint(frame.t),
                         success, message)
    IN  /\ task' = [task EXCEPT ![frame.t] = NewFrame(frame.t, "done")]
        /\ results' = collect(results, result)
        /\ last' = Some([frame EXCEPT !.pc = "done", !.result = Some(result)])

\* A worker takes the next task of the queue and runs it up to the return of
\* fetch_api_data, or to the except clause when the fetch raises.
FetchApiData(t, R, replay) ==
    /\ mainpc = "phase2"
    /\ task[t].pc = "queued"
    /\ \A u \in 1..(t - 1) : task[u].pc # "queued"
    /\ Cardinality({u \in DOMAIN task : Running(u)}) < max_workers
    /\ \E r \in Answers(t, R, replay) :
       \E caught \in Caught(r) :
          LET f == fetch_api_data(r, caught)
              frame == [task[t] EXCEPT !.pc = "fetched", !.resp = Some(r),
                                       !.json_data = Some(f.json_data)]
          IN  /\ IF f.exc = "none"
                 THEN /\ task' = [task EXCEPT ![t] = frame]
                      /\ UNCHANGED <<results, last>>
                 ELSE ReturnFrom([frame EXCEPT !.json_data = None], FALSE, f.exc)
              /\ api' = [api EXCEPT ![t] = Some(r)]
    /\ UNCHANGED <<config, borrowed, run, mainpc, db_pool, conn, created, companies,
                   tables, ensured, snapshot>>

\* A test that knows 'Error Message' only.
error_message_only(json_data) ==
    IF json_data.kind = "Error Message" THEN Some(json_data.text) ELSE None

\* A test that takes an answer without the dataset's key for an error too.
api_error_or_missing_key(json_data) ==
    CASE json_data.kind \in {"Error Message", "Note"} -> Some(json_data.text)
      [] json_data.kind = "nokey" -> Some("missing key")
      [] OTHER -> None

\* if 'Error Message' in json_data ... if 'Note' in json_data: the message
\* the task returns with, if any.
api_error(json_data) ==
    IF json_data.kind \in {"Error Message", "Note"} THEN Some(json_data.text) ELSE None

\* json_data.get('Time Series (Daily)', {}) and its likes.
nested_series(json_data) == IF json_data.kind = "data" THEN json_data.series ELSE <<>>

\* A writer that calls execute_batch whatever values_list holds.
always_batch(values_list) == TRUE

\* if values_list: execute_batch(query, values_list)
has_batch(values_list) == values_list # <<>>

\* The endpoint's writer from the return of check_last_date to the call of
\* execute_batch: the watermark (None when the query raised: logged), the
\* loop that builds values_list, and the test of values_list.
WriterLoop(t, ok) ==
    LET symbol == TaskSymbol(t)
        endpoint == TaskEndpoint(t)
        wm == IF ok THEN check_last_date(tables[endpoint], symbol) ELSE None
        built == build_values_list(program, endpoint, symbol,
                                   nested_series(task[t].json_data[1]), wm, <<>>)
        frame == [task[t] EXCEPT !.last_date = wm,
                                 !.wm_error = ~ok,
                                 !.values_list = built.values_list]
    IN  IF built.exc # "none"
        THEN ReturnFrom(frame, FALSE, built.exc)
        ELSE IF ~has_batch(built.values_list)
        THEN ReturnFrom(frame, TRUE, "Processed successfully")
        ELSE /\ task' = [task EXCEPT ![t] = [frame EXCEPT !.pc = "batch"]]
             /\ UNCHANGED <<results, last>>

\* process_symbol_endpoint from the return of fetch_api_data to the call of
\* execute_batch: the 'Error Message' and 'Note' tests, the nested series,
\* and in the endpoint's writer the empty test, check_last_date (its query
\* may raise in the store) and the loop that builds values_list.
ProcessData(t) ==
    /\ mainpc = "phase2"
    /\ task[t].pc = "fetched"
    /\ LET json_data == task[t].json_data[1]
       IN  IF api_error(json_data) # None
           THEN /\ ReturnFrom(task[t], FALSE, api_error(json_data)[1])
                /\ conn' = conn
           ELSE IF nested_series(json_data) = <<>>
           THEN /\ ReturnFrom(task[t], TRUE, "Processed successfully")
                /\ conn' = conn
           ELSE \E ok \in MayFail("check_last_date") :
                \E c \in get_connection(TaskWorkers, ok) :
                   /\ conn' = c
                   /\ WriterLoop(t, ok)
    /\ UNCHANGED <<config, borrowed, run, mainpc, db_pool, created, companies, tables,
                   ensured, api, snapshot>>

\* The tuples a failed executemany leaves behind. main_parallel.py rolls the
\* transaction back; main_parallel_duckdb.py runs executemany outside any
\* transaction, so the tuples before the failing one may stay.
LeftBehind(prog, values_list) ==
    IF prog = "main_parallel"
    THEN {<<>>}
    ELSE {SubSeq(values_list, 1, k) : k \in 0..(Len(values_list) - 1)}

\* execute_batch's executemany and commit, and the return of the task. The
\* insert is refused when the symbol is not in companies (foreign key) and
\* may fail in the store for other reasons; the exception reaches the except
\* clause of process_symbol_endpoint.
BatchStatement(t, ok) ==
    LET endpoint == TaskEndpoint(t)
        values_list == task[t].values_list
        frame == [task[t] EXCEPT !.batches = Append(@, values_list)]
    IN  IF ~ForeignKeyOk(companies, values_list)
        THEN /\ tables' = tables
             /\ ReturnFrom(frame, FALSE, "ForeignKeyViolation")
        ELSE IF ok
        THEN /\ tables' = [tables EXCEPT ![endpoint] = executemany(@, values_list)]
             /\ ReturnFrom(frame, TRUE, "Processed successfully")
        ELSE /\ \E kept \in LeftBehind(program, values_list) :
                   tables' = [tables EXCEPT ![endpoint] = executemany(@, kept)]
             /\ ReturnFrom(frame, FALSE, "OperationalError")

\* execute_batch(query, values_list) on the task's worker.
ExecuteBatch(t) ==
    /\ mainpc = "phase2"
    /\ task[t].pc = "batch"
    /\ \E ok \in MayFail("execute_batch") :
       \E c \in get_connection(TaskWorkers,
                                ok \/ ~ForeignKeyOk(companies, task[t].values_list)) :
          /\ conn' = c
          /\ BatchStatement(t, ok)
    /\ UNCHANGED <<config, borrowed, run, mainpc, db_pool, created, companies, ensured,
                   api, snapshot>>

\* run_parallel_etl returns when every task has; main prints the summary
\* and, in main_parallel.py, closes the pool in its finally clause.
Summary ==
    /\ mainpc = "phase2"
    /\ \A t \in DOMAIN task : task[t].pc = "done"
    /\ mainpc' = "done"
    /\ db_pool' = FALSE
    /\ \E c \in threads_ended(TaskWorkers) : conn' = c
    /\ UNCHANGED <<config, borrowed, run, created, companies, tables, ensured, task,
                   results, last, api, snapshot>>

(***************************************************************************)
(* main_parallel.py's connection pool, store call by store call: a call    *)
(* borrows a connection in get_connection and gives it back in the finally *)
(* clause of execute_query or execute_batch.                               *)
(***************************************************************************)
\* A pool one connection short of the workers.
one_short_of_workers == max_workers - 1

\* main: init_connection_pool(db_config, min_conn=2, max_conn=max_workers + 2)
max_conn == max_workers + 2

\* The calls that borrow: ensure_company_exists(symbols[i]) on a worker of
\* the first executor, process_symbol_endpoint(task t) on one of the second.
EnsureCall(i) == <<"ensure_company_exists", i>>

TaskCall(t) == <<"process_symbol_endpoint", t>>

Holds(who) == \E b \in borrowed : b.who = who

EnsureRunning(i) == Holds(EnsureCall(i)) /\ i \notin Ensured

\* get_connection: db_pool.getconn() hands out a connection that no call
\* holds, or raises PoolError (None) when max_conn of them are in use.
getconn ==
    LET free == (1..max_conn) \ {b.c : b \in borrowed}
    IN  IF free = {} THEN None ELSE Some(CHOOSE c \in free : \A d \in free : c <= d)

\* A store call that gives its connection back after the commit only.
release_after_commit(who, ok) ==
    IF ok THEN {b \in borrowed : b.who # who} ELSE borrowed

\* finally: if conn: release_connection(conn), on the path through commit
\* (ok) and on the one through except, rollback and raise.
release_connection(who, ok) == {b \in borrowed : b.who # who}

\* ensure_company_exists on a worker, up to get_connection in execute_query.
\* The executor starts the calls in order, max_workers at a time. PoolError
\* is caught and logged like any other error of the insert.
EnsureGetConnection(i) ==
    /\ program = "main_parallel"
    /\ mainpc = "phase1"
    /\ i \in 1..Len(symbols)
    /\ i \notin Ensured
    /\ ~Holds(EnsureCall(i))
    /\ \A j \in 1..(i - 1) : j \in Ensured \/ Holds(EnsureCall(j))
    /\ Cardinality({j \in 1..Len(symbols) : EnsureRunning(j)}) < max_workers
    /\ IF getconn = None
       THEN /\ ensured' = ensured \cup {[i |-> i, ok |-> FALSE]}
            /\ mainpc' = ensure_company_exists(FALSE)
            /\ borrowed' = borrowed
       ELSE /\ borrowed' = borrowed \cup {[who |-> EnsureCall(i), c |-> getconn[1]]}
            /\ UNCHANGED <<ensured, mainpc>>
    /\ UNCHANGED <<config, run, db_pool, conn, created, companies, tables, task,
                   results, last, api, snapshot>>

\* execute_query of the company insert with the connection in hand: execute
\* and commit, or except (rollback, raise), then release in finally.
EnsureRelease(i) ==
    /\ program = "main_parallel"
    /\ mainpc = "phase1"
    /\ i \in 1..Len(symbols)
    /\ EnsureRunning(i)
    /\ \E ok \in MayFail("ensure_company") :
          /\ companies' = IF ok THEN companies \cup {symbols[i]} ELSE companies
          /\ ensured' = ensured \cup {[i |-> i, ok |-> ok]}
          /\ mainpc' = ensure_company_exists(ok)
          /\ borrowed' = release_connection(EnsureCall(i), ok)
    /\ UNCHANGED <<config, run, db_pool, conn, created, tables, task,
                   results, last, api, snapshot>>

\* process_symbol_endpoint from the return of fetch_api_data to
\* get_connection in check_last_date's execute_query. PoolError is caught in
\* check_last_date like any error of the query: the watermark is None.
ProcessDataGetConnection(t) ==
    /\ program = "main_parallel"
    /\ mainpc = "phase2"
    /\ task[t].pc = "fetched"
    /\ LET json_data == task[t].json_data[1]
       IN  IF api_error(json_data) # None
           THEN /\ ReturnFrom(task[t], FALSE, api_error(json_data)[1])
                /\ borrowed' = borrowed
           ELSE IF nested_series(json_data) = <<>>
           THEN /\ ReturnFrom(task[t], TRUE, "Processed successfully")
                /\ borrowed' = borrowed
           ELSE IF getconn = None
           THEN /\ WriterLoop(t, FALSE)
                /\ borrowed' = borrowed
           ELSE /\ task' = [task EXCEPT ![t].pc = "query"]
                /\ borrowed' = borrowed \cup {[who |-> TaskCall(t), c |-> getconn[1]]}
                /\ UNCHANGED <<results, last>>
    /\ UNCHANGED <<config, run, mainpc, db_pool, conn, created, companies, tables,
                   ensured, api, snapshot>>

\* execute_query of the watermark query with the connection in hand, its
\* release in finally, and the writer up to the call of execute_batch.
CheckLastDateRelease(t) ==
    /\ program = "main_parallel"
    /\ mainpc = "phase2"
    /\ task[t].pc = "query"
    /\ \E ok \in MayFail("check_last_date") :
          /\ borrowed' = release_connection(TaskCall(t), ok)
          /\ WriterLoop(t, ok)
    /\ UNCHANGED <<config, run, mainpc, db_pool, conn, created, companies, tables,
                   ensured, api, snapshot>>

\* execute_batch up to get_connection. PoolError leaves execute_batch and
\* reaches the except clause of process_symbol_endpoint.
ExecuteBatchGetConnection(t) ==
    /\ program = "main_parallel"
    /\ mainpc = "phase2"
    /\ task[t].pc = "batch"
    /\ IF getconn = None
       THEN /\ ReturnFrom(task[t], FALSE, "PoolError")
            /\ borrowed' = borrowed
       ELSE /\ task' = [task EXCEPT ![t].pc = "insert"]
            /\ borrowed' = borrowed \cup {[who |-> TaskCall(t), c |-> getconn[1]]}
            /\ UNCHANGED <<results, last>>
    /\ UNCHANGED <<config, run, mainpc, db_pool, conn, created, companies, tables,
                   ensured, api, snapshot>>

\* execute_batch with the connection in hand: executemany and commit, or
\* except (rollback, raise), then release in finally.
ExecuteBatchRelease(t) ==
    /\ program = "main_parallel"
    /\ mainpc = "phase2"
    /\ task[t].pc = "insert"
    /\ \E ok \in MayFail("execute_batch") :
          /\ borrowed' = release_connection(TaskCall(t), ok)
          /\ BatchStatement(t, ok)
    /\ UNCHANGED <<config, run, mainpc, db_pool, conn, created, companies,
                   ensured, api, snapshot>>

(***************************************************************************)
(* The sequential programs, main.py and main_duckdb.py.                    *)
(***************************************************************************)
\* check_last_date of main.py and main_duckdb.py. main.py compares the table
\* name to "daily_stock_pries", so it asks daily_stock_prices for
\* MAX(date_time), a column the table does not have: execute_query logs the
\* error, fetchone raises, and the function returns None. A query that fails
\* for another reason, or on tables that do not exist, returns None as well.
seq_check_last_date(prog, endpoint, T, symbol, ok) ==
    IF ~ok THEN None
    ELSE IF prog = "main" /\ endpoint = "TIME_SERIES_DAILY" THEN None
    ELSE check_last_date(T, symbol)

\* The strptime of update_daily_stock_prices, update_intraday_stock_prices
\* and update_sma_indicators: one format per dataset.
seq_strptime(endpoint, key) ==
    IF endpoint = "TIME_SERIES_DAILY" THEN strptime_date(key) ELSE strptime_full(key)

\* insert_daily_stock_prices and its likes: the fields are parsed inside
\* try / except Exception, so any error drops the record; otherwise the
\* tuple, with the key string as it came, goes to execute_query.
insert_entry(acc, symbol, e) ==
    LET f == ParseFields(e.values)
    IN  IF f.exc = "none" THEN Append(acc, Tuple(symbol, e.key, f.v)) ELSE acc

\* The loops of update_*: with a watermark, the entries in payload order up
\* to the first one that is not newer (break) or whose key does not parse
\* (the ValueError leaves the loop for the function's except clause); with
\* none, every entry. The result is the tuples handed to execute_query.
RECURSIVE update_entries(_, _, _, _, _)
update_entries(endpoint, symbol, series, last_date, acc) ==
    IF series = <<>>
    THEN acc
    ELSE LET e == Head(series)
             p == seq_strptime(endpoint, e.key)
         IN  IF last_date = None
             THEN update_entries(endpoint, symbol, Tail(series), last_date,
                                 insert_entry(acc, symbol, e))
             ELSE IF p.exc # "none" THEN acc
             ELSE IF p.dt > last_date[1]
             THEN update_entries(endpoint, symbol, Tail(series), last_date,
                                 insert_entry(acc, symbol, e))
             ELSE acc

\* The string of a tuple as the column takes it: a DATE column keeps the day.
ColumnValue(endpoint, str) ==
    IF endpoint = "TIME_SERIES_DAILY" THEN DateKey(str.day) ELSE str

\* execute_query of one INSERT. The store refuses a string that is no
\* timestamp; main.py's plain INSERT is refused on a key already in the
\* table, main_duckdb.py's INSERT OR IGNORE passes it by; execute_query logs
\* every error and goes on, so the three end alike: the table is unchanged.
execute_insert(T, endpoint, tuple) ==
    IF tuple.date_time.fmt = "bad"
    THEN T
    ELSE InsertOrIgnore(T, [tuple EXCEPT !.date_time = ColumnValue(endpoint, @)])

RECURSIVE execute_inserts(_, _, _)
execute_inserts(T, endpoint, submitted) ==
    IF submitted = <<>>
    THEN T
    ELSE execute_inserts(execute_insert(T, endpoint, Head(submitted)), endpoint,
                         Tail(submitted))

\* The task the sequential sweep runs k-th: main.py's update goes through
\* the endpoints and, for each, through the symbols; main_duckdb.py's main
\* goes through the symbols and, for each, through the datasets.
SeqTaskAt(prog, k) ==
    IF prog = "main"
    THEN (((k - 1) % Len(symbols)) * Len(endpoints)) + ((k - 1) \div Len(symbols)) + 1
    ELSE k

Finished == {t \in DOMAIN task : task[t].pc = "done"}

\* The start of main up to the sweep. main.py connects and, the creation of
\* the tables being commented out, ensures each company on the tables it
\* finds; main_duckdb.py connects, returns if the API key is not set, and
\* creates the tables. An error of connect or create_tables ends the
\* process. The connection is the main thread's, open from here on.
SeqStart ==
    /\ program \in Sequential
    /\ mainpc = "connect"
    /\ \E ok \in MayFail("connect") :
          IF ~ok
          THEN /\ mainpc' = "fatal"
               /\ UNCHANGED <<conn, created, companies, ensured, task>>
          ELSE /\ conn' = {MainThread}
               /\ IF program = "main"
                  THEN /\ mainpc' = "sweep"
                       /\ created' = created
                       /\ \E stored \in MayFail("ensure_company") :
                             /\ companies' =
                                   IF created /\ stored
                                   THEN companies \cup {symbols[i] : i \in 1..Len(symbols)}
                                   ELSE companies
                             /\ ensured' = {[i |-> i, ok |-> created /\ stored] :
                                               i \in 1..Len(symbols)}
                       /\ task' = [t \in DOMAIN task |-> NewFrame(t, "queued")]
                  ELSE IF ~api_key
                  THEN /\ mainpc' = "fatal"
                       /\ UNCHANGED <<created, companies, ensured, task>>
                  ELSE \E made \in MayFail("create_tables") :
                          /\ mainpc' = IF made THEN "sweep" ELSE "fatal"
                          /\ created' = (created \/ made)
                          /\ companies' = companies
                          /\ ensured' = ensured
                          /\ task' = IF made
                                     THEN [t \in DOMAIN task |-> NewFrame(t, "queued")]
                                     ELSE task
    /\ UNCHANGED <<config, borrowed, run, db_pool, tables, results, last, api, snapshot>>

\* What the fetch of a sequential program comes to: "raise" when an
\* exception leaves it, "none" when there is no series to update, "update"
\* when update_* is called on series. main.py calls requests.get and
\* json.loads bare, and updates with whatever .get(key, {}) gives;
\* main_duckdb.py catches RequestException in fetch_data_from_api and updates
\* only when the dataset's key is in the answer.
seq_fetch(prog, r, caught) ==
    IF prog = "main"
    THEN IF r.kind \in {"RequestException", "JSONDecodeError"}
         THEN [act |-> "raise", series |-> <<>>]
         ELSE [act |-> "update", series |-> nested_series(r)]
    ELSE CASE r.kind = "RequestException" -> [act |-> "none", series |-> <<>>]
           [] r.kind = "JSONDecodeError" ->
                 IF caught THEN [act |-> "none", series |-> <<>>]
                           ELSE [act |-> "raise", series |-> <<>>]
           [] r.kind = "data" -> [act |-> "update", series |-> r.series]
           [] OTHER -> [act |-> "none", series |-> <<>>]

\* One (symbol, endpoint) step of the sweep: in main_duckdb.py the company
\* insert that precedes the symbol's first dataset, the fetch, and update_*.
\* An exception that leaves the fetch ends the sweep: in main.py through
\* update's bare except, whose log line names an undefined e, to main's
\* except; in main_duckdb.py uncaught.
SeqTask(t, R, replay) ==
    /\ program \in Sequential
    /\ mainpc = "sweep"
    /\ Cardinality(Finished) < Len(task)
    /\ t = SeqTaskAt(program, Cardinality(Finished) + 1)
    /\ LET symbol == TaskSymbol(t)
           endpoint == TaskEndpoint(t)
           inserts == program = "main_duckdb" /\ endpoint = endpoints[1]
       IN  \E r \in Answers(t, R, replay) :
           \E caught \in Caught(r) :
           \E stored \in MayFail("ensure_company") :
           \E ok \in MayFail("check_last_date") :
              LET f == seq_fetch(program, r, caught)
                  known == IF inserts /\ stored
                           THEN companies \cup {symbol}
                           ELSE companies
                  wm == seq_check_last_date(program, endpoint, tables[endpoint],
                                            symbol, ok /\ created)
                  submitted == IF f.act = "update"
                               THEN update_entries(endpoint, symbol, f.series, wm, <<>>)
                               ELSE <<>>
                  frame == [Frame(t, "done", Some(r),
                                  IF f.act = "raise" THEN None ELSE Some(r),
                                  IF f.act = "update" THEN wm ELSE None,
                                  f.act = "update" /\ ~ok, submitted, None)
                               EXCEPT !.batches = [i \in 1..Len(submitted) |->
                                                      <<submitted[i]>>]]
              IN  /\ companies' = known
                  /\ ensured' = IF inserts
                                THEN ensured \cup {[i |-> SymbolIndex(t), ok |-> stored]}
                                ELSE ensured
                  /\ api' = [api EXCEPT ![t] = Some(r)]
                  /\ last' = Some(frame)
                  /\ task' = [task EXCEPT ![t] = NewFrame(t, "done")]
                  /\ mainpc' = IF f.act = "raise" THEN "aborted" ELSE "sweep"
                  /\ tables' = IF created /\ symbol \in known
                               THEN [tables EXCEPT
                                        ![endpoint] = execute_inserts(@, endpoint, submitted)]
                               ELSE tables
    /\ UNCHANGED <<config, borrowed, run, db_pool, conn, created, results, snapshot>>

\* The sweep has gone through every task; main returns. main_duckdb.py
\* closes its connection; main.py never closes its own.
SeqDone ==
    /\ program \in Sequential
    /\ mainpc = "sweep"
    /\ Finished = DOMAIN task
    /\ mainpc' = "done"
    /\ conn' = IF program = "main_duckdb" THEN {} ELSE conn
    /\ UNCHANGED <<config, borrowed, run, db_pool, created, companies, tables, ensured,
                   task, results, last, api, snapshot>>

\* The program is started again on the database the last run left; the
\* process of the last run is gone, and its connections with it.
Rerun ==
    /\ mainpc \in {"done", "fatal", "aborted"}
    /\ run < MaxRuns
    /\ run' = run + 1
    /\ mainpc' = StartPc(program)
    /\ conn' = {}
    /\ borrowed' = {}
    /\ ensured' = {}
    /\ task' = [t \in DOMAIN task |-> NewFrame(t, "unsubmitted")]
    /\ results' = <<>>
    /\ last' = None
    /\ snapshot' = tables
    /\ UNCHANGED <<config, db_pool, created, companies, tables, api>>

(***************************************************************************)
(* The specifications.                                                     *)
(***************************************************************************)
\* The key string of day d as the endpoint's API writes it.
PlainKey(e, d) == IF e = "TIME_SERIES_INTRADAY" THEN FullKey(d, 10, 0, 0) ELSE DateKey(d)

\* The scheduling model: two symbols, two datasets, and per task a network
\* failure, an API error, or a payload of one new record.
SweepResponses ==
    [e \in EndpointSet |->
        {Respond("RequestException", "", <<>>),
         Respond("Error Message", ErrorText, <<>>),
         Respond("data", "", <<[key |-> PlainKey(e, MaxDay),
                                values |-> [kind |-> "ok", v |-> 1]]>>)}]

Init ==
    InitWith(Parallel, <<"AAPL", "IBM">>, {<<"TIME_SERIES_DAILY", "SMA">>},
             {1, 4}, {{}}, {TRUE})

Next ==
    \/ InitConnectionPool
    \/ CreateTables
    \/ \E i \in 1..Len(symbols) : EnsureCompanyExists(i)
    \/ SubmitTasks
    \/ \E t \in DOMAIN task : FetchApiData(t, SweepResponses, FALSE)
    \/ \E t \in DOMAIN task : ProcessData(t)
    \/ \E t \in DOMAIN task : ExecuteBatch(t)
    \/ Summary

Spec == Init /\ [][Next]_vars

\* The sweep of the sequential programs over the same answers, with the
\* three datasets.
InitSeq ==
    InitWith(Sequential, <<"AAPL", "IBM">>, {Endpoints}, {1}, {{}}, {TRUE})

NextSeq ==
    \/ SeqStart
    \/ \E t \in DOMAIN task : SeqTask(t, SweepResponses, FALSE)
    \/ SeqDone

SpecSeq == InitSeq /\ [][NextSeq]_vars

\* The writer model: one symbol, one dataset, and every payload of at most
\* MaxLen entries over the key strings and field mappings below, in every
\* order.
WriterKeys ==
    {DateKey(d) : d \in 1..MaxDay}
        \cup {FullKey(d, c[1], c[2], c[3]) :
                 d \in 1..MaxDay, c \in {<<0, 0, 0>>, <<0, 0, 30>>, <<10, 0, 0>>}}
        \cup {BadKey}

WriterResponses ==
    [e \in EndpointSet |-> ResponsesOf(EntriesOf(WriterKeys, FieldValues), MaxLen)]

InitWriter ==
    InitWith(Parallel \cup Sequential, <<"IBM">>, {<<e>> : e \in EndpointSet},
             {1}, {{}, FaultSites}, {TRUE})

NextWriter ==
    \/ InitConnectionPool
    \/ CreateTables
    \/ \E i \in 1..Len(symbols) : EnsureCompanyExists(i)
    \/ SubmitTasks
    \/ \E t \in DOMAIN task : FetchApiData(t, WriterResponses, FALSE)
    \/ \E t \in DOMAIN task : ProcessData(t)
    \/ \E t \in DOMAIN task : ExecuteBatch(t)
    \/ Summary
    \/ SeqStart
    \/ \E t \in DOMAIN task : SeqTask(t, WriterResponses, FALSE)
    \/ SeqDone

SpecWriter == InitWriter /\ [][NextWriter]_vars

\* The same, run twice on the same answers, the field mappings being the
\* well-formed ones, one with a key missing and one with a null.
TwiceFields ==
    {f \in FieldValues : f.kind \in {"ok", "missing", "null"}}

TwiceResponses ==
    [e \in EndpointSet |-> ResponsesOf(EntriesOf(WriterKeys, TwiceFields), MaxLen)]

NextTwice ==
    \/ InitConnectionPool
    \/ CreateTables
    \/ \E i \in 1..Len(symbols) : EnsureCompanyExists(i)
    \/ SubmitTasks
    \/ \E t \in DOMAIN task : FetchApiData(t, TwiceResponses, TRUE)
    \/ \E t \in DOMAIN task : ProcessData(t)
    \/ \E t \in DOMAIN task : ExecuteBatch(t)
    \/ Summary
    \/ SeqStart
    \/ \E t \in DOMAIN task : SeqTask(t, TwiceResponses, TRUE)
    \/ SeqDone
    \/ Rerun

SpecTwice == InitWriter /\ [][NextTwice]_vars

\* The lifecycle model: the four programs from start to exit on two symbols
\* and two datasets with two workers, the store failing or not, and per
\* task a body that is not JSON, a rate-limit note, or a payload of one new
\* record; and the same on a store that does not fail with the API key not
\* set.
LifecycleResponses ==
    [e \in EndpointSet |->
        {Respond("JSONDecodeError", "", <<>>),
         Respond("Note", NoteText, <<>>),
         Respond("data", "", <<[key |-> PlainKey(e, MaxDay),
                                values |-> [kind |-> "ok", v |-> 1]]>>)}]

InitLifecycle ==
    \/ InitWith(Parallel \cup Sequential, <<"AAPL", "IBM">>,
                {<<"TIME_SERIES_DAILY", "SMA">>}, {2}, {{}, FaultSites}, {TRUE})
    \/ InitWith(Parallel \cup Sequential, <<"AAPL", "IBM">>,
                {<<"TIME_SERIES_DAILY", "SMA">>}, {2}, {{}}, {FALSE})

NextLifecycle ==
    \/ InitConnectionPool
    \/ CreateTables
    \/ \E i \in 1..Len(symbols) : EnsureCompanyExists(i)
    \/ SubmitTasks
    \/ \E t \in DOMAIN task : FetchApiData(t, LifecycleResponses, FALSE)
    \/ \E t \in DOMAIN task : ProcessData(t)
    \/ \E t \in DOMAIN task : ExecuteBatch(t)
    \/ Summary
    \/ SeqStart
    \/ \E t \in DOMAIN task : SeqTask(t, LifecycleResponses, FALSE)
    \/ SeqDone

SpecLifecycle == InitLifecycle /\ [][NextLifecycle]_vars

\* The pool model: main_parallel.py on two symbols and two datasets with one
\* worker or two, the store failing or not, the store calls of the workers
\* taken apart at get_connection.
InitPool ==
    InitWith({"main_parallel"}, <<"AAPL", "IBM">>, {<<"TIME_SERIES_DAILY", "SMA">>},
             {1, 2}, {{}, FaultSites}, {TRUE})

NextPool ==
    \/ InitConnectionPool
    \/ CreateTables
    \/ \E i \in 1..Len(symbols) : EnsureGetConnection(i)
    \/ \E i \in 1..Len(symbols) : EnsureRelease(i)
    \/ SubmitTasks
    \/ \E t \in DOMAIN task : FetchApiData(t, LifecycleResponses, FALSE)
    \/ \E t \in DOMAIN task : ProcessDataGetConnection(t)
    \/ \E t \in DOMAIN task : CheckLastDateRelease(t)
    \/ \E t \in DOMAIN task : ExecuteBatchGetConnection(t)
    \/ \E t \in DOMAIN task : ExecuteBatchRelease(t)
    \/ Summary

SpecPool == InitPool /\ [][NextPool]_vars

\* The same-pair model: main_parallel.py with the symbol list holding one
\* symbol twice, one dataset and two workers, on a store that does not fail;
\* each of the two tasks gets a payload of at most MaxLen well-formed
\* records. The store runs the watermark query and the batch insert of a
\* task as a transaction each, one at a time.
PairResponses ==
    [e \in EndpointSet |->
        {Respond("data", "", s) :
            s \in SeriesOf(EntriesOf({PlainKey(e, d) : d \in 1..MaxDay},
                                     {f \in FieldValues : f.kind = "ok"}), MaxLen)}]

InitPair ==
    InitWith({"main_parallel"}, <<"IBM", "IBM">>, {<<e>> : e \in EndpointSet},
             {2}, {{}}, {TRUE})

NextPair ==
    \/ InitConnectionPool
    \/ CreateTables
    \/ \E i \in 1..Len(symbols) : EnsureGetConnection(i)
    \/ \E i \in 1..Len(symbols) : EnsureRelease(i)
    \/ SubmitTasks
    \/ \E t \in DOMAIN task : FetchApiData(t, PairResponses, FALSE)
    \/ \E t \in DOMAIN task : ProcessDataGetConnection(t)
    \/ \E t \in DOMAIN task : CheckLastDateRelease(t)
    \/ \E t \in DOMAIN task : ExecuteBatchGetConnection(t)
    \/ \E t \in DOMAIN task : ExecuteBatchRelease(t)
    \/ Summary

SpecPair == InitPair /\ [][NextPair]_vars

(***************************************************************************)
(* The properties. They speak of the call that returned last: its task,    *)
(* the answer it got, what it submitted, and the tables before and after.  *)
(***************************************************************************)
LastSymbol == TaskSymbol(last[1].t)

LastEndpoint == TaskEndpoint(last[1].t)

\* The payload of the last call, <<>> when the answer carried none.
LastSeries == nested_series(last[1].resp[1])

\* The watermark T of the pair as the run found it, and the table after.
FoundWatermark == check_last_date(snapshot[LastEndpoint], LastSymbol)

LastTable == tables[LastEndpoint]

\* The timestamp a key string stands for.
RecordTime(key) == CastTimestamp(key)

\* Whether the key is a timestamp of the dataset: a date for the daily
\* series, a full timestamp for the intraday series, either for SMA.
KeyParses(endpoint, key) ==
    CASE endpoint = "TIME_SERIES_DAILY" -> key.fmt = "date"
      [] endpoint = "TIME_SERIES_INTRADAY" -> key.fmt = "full"
      [] OTHER -> key.fmt \in {"date", "full"}

WellFormed(endpoint, e) == e.values.kind = "ok" /\ KeyParses(endpoint, e.key)

\* Whether the record is newer than the watermark, or there is none.
PassesFilter(e) == FoundWatermark = None \/ RecordTime(e.key) > FoundWatermark[1]

\* Whether the table holds a row for the record, under the timestamp the
\* program submits for its key.
Written(e) ==
    LET str == IF program = "main_parallel_duckdb" /\ LastEndpoint = "SMA"
               THEN timestamp_str(RecordTime(e.key))
               ELSE e.key
    IN  HasKey(LastTable, LastSymbol, CastTimestamp(str))

\* A call has returned from a payload, on a store that has its tables and
\* does not fail.
ReturnedFromPayload ==
    /\ last # None
    /\ faults = {}
    /\ created
    /\ last[1].resp[1].kind = "data"

\* C1: idempotence of the sweep. With the answers of the API fixed and the
\* store not failing, a second run of the sweep leaves every dataset table
\* with the rows (and the row count) the first run left: at every point of
\* the second run the tables are as the run found them.
C1_Idempotence == (run > 1 /\ faults = {}) => tables = snapshot

\* A second run that has submitted tuples to a table the first run wrote to.
C1_Witness ==
    /\ run > 1
    /\ faults = {}
    /\ mainpc = "done"
    /\ last # None
    /\ last[1].values_list # <<>>
    /\ BagCardinality(tables[endpoints[1]]) >= 2
    /\ tables = snapshot

C3_WatermarkExclusion ==
    (last # None /\ faults = {} /\ FoundWatermark # None) =>
        \A i \in 1..Len(last[1].values_list) :
            LET str == last[1].values_list[i].date_time
            IN  str.fmt # "bad" => RecordTime(str) > FoundWatermark[1]

\* Every record of the payload is well-formed.
AllWellFormed ==
    \A i \in 1..Len(LastSeries) : WellFormed(LastEndpoint, LastSeries[i])

\* C4: watermark completeness. Every record of a payload of well-formed
\* records that is newer than the watermark (every one when there is none)
\* is written, whatever the order of the payload. (Violated: see the break
\* in the loops of main.py and main_duckdb.py.)
C4_WatermarkCompleteness ==
    (ReturnedFromPayload /\ AllWellFormed) =>
        \A i \in 1..Len(LastSeries) :
            (WellFormed(LastEndpoint, LastSeries[i]) /\ PassesFilter(LastSeries[i]))
                => Written(LastSeries[i])

\* C5: a fetch that fails with a network error, a timeout or a JSON decoding
\* error gives the task an outcome with success = false and a message.
\* (Violated: fetch_api_data answers a RequestException with {}.)
C5_NetworkFailureFails ==
    (last # None /\ last[1].resp[1].kind \in {"RequestException", "JSONDecodeError"}) =>
        /\ last[1].result # None
        /\ ~last[1].result[1].success
        /\ last[1].result[1].message # ""

\* The payload has exactly one entry that lacks a required field, and every
\* other entry is well-formed.
OneMissingField ==
    \E i \in 1..Len(LastSeries) :
        /\ LastSeries[i].values.kind = "missing"
        /\ \A j \in 1..Len(LastSeries) :
              j # i => WellFormed(LastEndpoint, LastSeries[j])

SomeBadRecord ==
    \E i \in 1..Len(LastSeries) : ~WellFormed(LastEndpoint, LastSeries[i])

\* C7: a record that fails to parse in any way (missing key, non-numeric
\* value, null, a value that is no mapping, a bad timestamp key) is skipped:
\* the task does not fail and the rest of the dataset is written. (Violated:
\* the loops catch KeyError and ValueError only.)
C7_EveryBadRecordSkipped ==
    (ReturnedFromPayload /\ SomeBadRecord) =>
        /\ mainpc # "aborted"
        /\ program \in Parallel =>
              /\ last[1].result # None
              /\ last[1].result[1].success
        /\ \A j \in 1..Len(LastSeries) :
              (WellFormed(LastEndpoint, LastSeries[j]) /\ PassesFilter(LastSeries[j]))
                  => Written(LastSeries[j])

\* The program has ended.
Ended == mainpc \in {"done", "aborted", "fatal"}

\* C8: cross-task independence. A task whose fetch fails or is answered
\* with an API error does not keep any other task from running: when the
\* program has ended, every other task has run. (Violated: see update of
\* main.py.)
C8_CrossTaskIndependence ==
    Ended =>
        \A t, u \in DOMAIN task :
            (t # u /\ api[t] # None /\ api[t][1].kind # "data")
                => task[u].pc = "done"

\* What task t does to the tables T when it runs alone, the API answering r.
TaskEffect(T, t, r) ==
    LET endpoint == TaskEndpoint(t)
        symbol == TaskSymbol(t)
        built == build_values_list(program, endpoint, symbol, nested_series(r),
                                   check_last_date(T[endpoint], symbol), <<>>)
    IN  IF built.exc = "none"
        THEN [T EXCEPT ![endpoint] = executemany(@, built.values_list)]
        ELSE T

\* The tables after the tasks 1..n have run one after the other, in the
\* order of submission: the run with max_workers = 1.
RECURSIVE OneByOne(_, _)
OneByOne(T, n) ==
    IF n = 0 THEN T ELSE TaskEffect(OneByOne(T, n - 1), n, api[n][1])

\* C9: schedule independence. For the tables the run found and the answers
\* the API gave, the tables at the end are those of the tasks run one after
\* the other, whatever max_workers and the interleaving were.
C9_ScheduleIndependence ==
    mainpc = "done" =>
        /\ tables = OneByOne(snapshot, Len(task))
        /\ companies = {symbols[i] : i \in 1..Len(symbols)}

\* A run with four workers has ended, every task having written its record,
\* and the first task to return was not the first submitted.
C9_Witness ==
    /\ mainpc = "done"
    /\ max_workers > 1
    /\ results[1].symbol = symbols[2]
    /\ \A t \in DOMAIN task : api[t][1].kind = "data"
    /\ \A e \in {"TIME_SERIES_DAILY", "SMA"} :
          \A i \in 1..Len(symbols) :
              HasKey(tables[e], symbols[i], RecordTime(PlainKey(e, MaxDay)))
    /\ tables = OneByOne(snapshot, Len(task))

\* C10: an answer with an 'Error Message' or a 'Note' key gives the task an
\* outcome with success = false whose message is the value of the key; the
\* task raises nothing and writes no row.
C10_ApiErrorIsFailure ==
    (last # None /\ program \in Parallel
         /\ last[1].resp[1].kind \in {"Error Message", "Note"}) =>
        /\ last[1].result # None
        /\ ~last[1].result[1].success
        /\ last[1].result[1].message = last[1].resp[1].text
        /\ tables = snapshot

\* A task answered with the rate-limit note has returned.
C10_Witness ==
    /\ last # None
    /\ program \in Parallel
    /\ last[1].resp[1].kind = "Note"
    /\ last[1].result # None
    /\ ~last[1].result[1].success
    /\ last[1].result[1].message = NoteText
    /\ tables = snapshot

\* C11: an answer that carries neither an error indicator nor the dataset's
\* top-level key is an empty record set: the task submits nothing, writes
\* nothing, raises nothing, and (in the programs that report outcomes)
\* returns success.
C11_MissingKeyIsEmpty ==
    (last # None /\ last[1].resp[1].kind = "nokey") =>
        /\ mainpc # "aborted"
        /\ last[1].values_list = <<>>
        /\ tables = snapshot
        /\ program \in Parallel =>
              /\ last[1].result # None
              /\ last[1].result[1].success
              /\ last[1].result[1].message = "Processed successfully"

\* A task of a parallel program, on loaded tables, was answered without
\* the dataset's key and has returned success.
C11_Witness ==
    /\ last # None
    /\ last[1].resp[1].kind = "nokey"
    /\ program \in Parallel
    /\ last[1].result # None
    /\ last[1].result[1].success
    /\ snapshot # EmptyTables
    /\ tables = snapshot

\* The results that report on task t.
OutcomesOf(t) ==
    {i \in 1..Len(results) :
        results[i].symbol = TaskSymbol(t) /\ results[i].endpoint = TaskEndpoint(t)}

\* C12: when run_parallel_etl has returned, results holds exactly one
\* outcome for every (symbol, dataset) pair of the cross product and nothing
\* else, each a success or a failure: succeeded + failed is the number of
\* tasks, and the summary main prints from results names every task.
C12_OneOutcomePerTask ==
    (program \in Parallel /\ mainpc = "done") =>
        /\ Len(results) = Len(symbols) * Len(endpoints)
        /\ \A t \in DOMAIN task : Cardinality(OutcomesOf(t)) = 1
        /\ \A i \in 1..Len(results) :
              /\ \E t \in DOMAIN task : i \in OutcomesOf(t)
              /\ results[i].success \in BOOLEAN
        /\ Cardinality({i \in 1..Len(results) : results[i].success})
              + Cardinality({i \in 1..Len(results) : ~results[i].success})
              = Len(symbols) * Len(endpoints)

\* A run of two workers on a failing store has returned with successes and
\* failures, the outcomes not in the order of submission.
C12_Witness ==
    /\ program \in Parallel
    /\ mainpc = "done"
    /\ max_workers > 1
    /\ faults # {}
    /\ \E i, j \in 1..Len(results) : results[i].success /\ ~results[j].success
    /\ results[1].endpoint = endpoints[2]
    /\ Len(results) = Len(symbols) * Len(endpoints)

\* Where main is before it has created a table, ensured a symbol or
\* scheduled a task, or after a fatal error.
BeforeSetup == {"init_pool", "create_tables", "connect", "fatal"}

\* C13: with the API key absent from the environment the process aborts at
\* startup: no table is created, no symbol row is inserted, no task is
\* scheduled and no fetch is issued. (Violated: only main_duckdb.py looks
\* at the key.)
C13_MissingApiKeyIsFatal ==
    ~api_key =>
        /\ mainpc \in BeforeSetup
        /\ ensured = {}
        /\ \A t \in DOMAIN task : task[t].pc = "unsubmitted" /\ api[t] = None

\* C14: the store connection state is torn down on every exit path of the
\* entry point: when main has ended, normally or on a fatal setup error,
\* the pool is closed and no thread's connection is left open. (Violated:
\* only main_parallel.py closes in a finally clause.)
C14_StoreLifecycle ==
    Ended => (~db_pool /\ conn = {})

\* A fetch of task t has been issued in this run.
FetchBegun(t) == api[t] # None \/ task[t].pc \in {"fetched", "batch", "done"}

\* C15: phase ordering. Every symbol's ensure-company operation has
\* returned, successfully or not, before the first task begins its fetch.
\* (Violated: main_duckdb.py inserts each company just before that symbol's
\* fetches, after the fetches of the symbols before it.)
C15_PhaseOrdering ==
    (\E t \in DOMAIN task : FetchBegun(t)) => Ensured = 1..Len(symbols)

\* C16: referential integrity. In every reachable state every row of the
\* daily, intraday and SMA tables has a symbol that is in companies; a task
\* that submits tuples for a symbol that is not there (its ensure-company
\* operation failed) has its write rejected by the store and ends as a
\* failed outcome.
C16_ReferentialIntegrity ==
    /\ \A e \in EndpointSet :
          \A r \in BagToSet(tables[e]) : r.symbol \in companies
    /\ (program \in Parallel /\ last # None /\ last[1].values_list # <<>>
            /\ LastSymbol \notin companies) =>
          /\ last[1].result # None
          /\ ~last[1].result[1].success
          /\ last[1].result[1].message # ""

\* The ensure-company operation failed for one symbol and not for the
\* other: the task of the first was refused by the store and has failed,
\* and a row of the second is in its table.
C16_Witness ==
    /\ program \in Parallel
    /\ last # None
    /\ last[1].values_list # <<>>
    /\ LastSymbol \notin companies
    /\ [i |-> SymbolIndex(last[1].t), ok |-> FALSE] \in ensured
    /\ ~last[1].result[1].success
    /\ \E e \in EndpointSet : \E r \in BagToSet(tables[e]) : r.symbol # LastSymbol
    /\ \A e \in EndpointSet : \A r \in BagToSet(tables[e]) : r.symbol \in companies

\* C17: phase 1 isolation. A store error in the ensure operation of one
\* symbol is caught: it never ends the process, the ensure operations of
\* all other symbols still run and those that succeed have their row in
\* companies, every symbol has one ensure outcome, an ensure fails on a
\* store error only (never on the calls for other symbols running beside
\* it), and phase 2 is started with the tasks of all symbols.
C17_PhaseOneIsolation ==
    /\ mainpc = "fatal" => ensured = {}
    /\ \A p, q \in ensured :
          /\ p.i = q.i => p = q
          /\ (program \in Parallel /\ ~p.ok) => "ensure_company" \in faults
    /\ (program \in Parallel /\ mainpc \in {"phase2", "done"}) =>
          /\ Ensured = 1..Len(symbols)
          /\ \A p \in ensured : p.ok => symbols[p.i] \in companies
          /\ \A t \in DOMAIN task : task[t].pc # "unsubmitted"

\* With two workers the ensure of the first symbol failed and that of the
\* second did not: the second symbol's row is in companies, phase 2 has run
\* the tasks of both symbols, and the run has ended.
C17_Witness ==
    /\ program \in Parallel
    /\ mainpc = "done"
    /\ max_workers > 1
    /\ ensured = {[i |-> 1, ok |-> FALSE], [i |-> 2, ok |-> TRUE]}
    /\ companies = {symbols[2]}
    /\ \A t \in DOMAIN task : api[t] # None
    /\ \E i \in 1..Len(results) : results[i].symbol = symbols[2] /\ results[i].success

\* The string the program submits for the timestamp of a record.
SubmittedString(e) ==
    IF program = "main_parallel_duckdb" /\ LastEndpoint = "SMA"
    THEN timestamp_str(RecordTime(e.key))
    ELSE e.key

\* Whether the last call submitted the record.
Submitted(e) ==
    \E j \in 1..Len(last[1].values_list) :
        /\ last[1].values_list[j].date_time = SubmittedString(e)
        /\ last[1].values_list[j].v = e.values.v

\* The watermark query of the last call failed with a store error, on a
\* store that has its tables.
WatermarkQueryFailed ==
    /\ last # None
    /\ created
    /\ last[1].resp[1].kind = "data"
    /\ last[1].wm_error

\* C18: watermark failure fallback. When the watermark query fails the load
\* is treated as fresh: every well-formed record of the payload is
\* submitted, the table still holds one row per key, and a task that fails
\* fails on a store error or a record that raises, not on rows that already
\* exist. (Violated: a record that raises TypeError in the loops of the
\* parallel programs takes the well-formed records with it.)
C18_WatermarkFailureFallback ==
    WatermarkQueryFailed =>
        /\ \A i \in 1..Len(LastSeries) :
              WellFormed(LastEndpoint, LastSeries[i]) => Submitted(LastSeries[i])
        /\ \A r \in BagToSet(LastTable) : CopiesIn(r, LastTable) = 1
        /\ (program \in Parallel /\ ~last[1].result[1].success) =>
              last[1].result[1].message
                  \in {"OperationalError", "ForeignKeyViolation", "TypeError"}

\* The timestamp of an SMA key by the normative rule: the full format
\* first, then the date-only format, a date standing for its midnight.
CanonicalTime(key) == sma_parse_postgres(key).dt

\* The tuple the last call submitted for the record, if any.
TuplesOf(e) ==
    {j \in 1..Len(last[1].values_list) :
        last[1].values_list[j].date_time = SubmittedString(e)}

\* C19: SMA timestamp normalization. For every SMA key in either format the
\* timestamp stored is that of the full format tried first and the
\* date-only format second, a date-only key being stored at midnight; the
\* program that tries the date-only format first stores the same timestamp
\* for every key. (Violated: timestamp_str of main_parallel_duckdb.py looks
\* at the hour and the minute only.)
C19_SmaTimestampNormalization ==
    (last # None /\ program \in Parallel /\ LastEndpoint = "SMA") =>
        \A i \in 1..Len(LastSeries) :
            \A j \in TuplesOf(LastSeries[i]) :
                /\ KeyParses("SMA", LastSeries[i].key)
                /\ CastTimestamp(last[1].values_list[j].date_time)
                      = CanonicalTime(LastSeries[i].key)

\* C20: append-only store. Every step of every task and run keeps each row
\* of each dataset table as it is: no row is deleted and none has its
\* values changed, a payload that carries other values for a key already in
\* the table included; the set of rows of a table only grows.
C20_AppendOnly ==
    [][\A e \in EndpointSet :
          \A r \in BagToSet(tables[e]) : r \in BagToSet(tables'[e])]_vars

\* A call has submitted, for a key the table already had, values other than
\* the row's, beside a new record: the table has grown and every row the
\* run found is still in it.
C20_Witness ==
    /\ last # None
    /\ \E j \in 1..Len(last[1].values_list) :
          LET tuple == last[1].values_list[j]
              ts == CastTimestamp(ColumnValue(LastEndpoint, tuple.date_time))
          IN  /\ tuple.date_time.fmt # "bad"
              /\ HasKey(snapshot[LastEndpoint], tuple.symbol, ts)
              /\ Row(tuple.symbol, ts, tuple.v) \notin BagToSet(snapshot[LastEndpoint])
    /\ BagCardinality(LastTable) > BagCardinality(snapshot[LastEndpoint])
    /\ \A e \in EndpointSet :
          \A r \in BagToSet(snapshot[e]) : r \in BagToSet(tables[e])

\* C21: connection pool capacity. In main_parallel.py, at every moment of
\* every interleaving the connections borrowed from the pool are no more
\* than the workers and no more than the pool's maximum, no connection is
\* held by two calls at once, and no request for a connection fails because
\* the pool is exhausted: no task returns PoolError and, on a store that
\* does not fail, no ensure call and no watermark query fails.
C21_PoolCapacity ==
    /\ Cardinality(borrowed) <= max_workers
    /\ Cardinality(borrowed) <= max_conn
    /\ \A b \in borrowed : b.c \in 1..max_conn
    /\ \A b, d \in borrowed : (b.c = d.c \/ b.who = d.who) => b = d
    /\ \A k \in 1..Len(results) : results[k].message # "PoolError"
    /\ faults = {} =>
          /\ \A p \in ensured : p.ok
          /\ \A t \in DOMAIN task : ~task[t].wm_error
          /\ last # None => ~last[1].wm_error

\* Two workers hold a connection each, one inside the watermark query and
\* one inside the batch insert.
C21_Witness ==
    /\ max_workers = 2
    /\ faults = {}
    /\ Cardinality(borrowed) = 2
    /\ \E t, u \in DOMAIN task :
          /\ task[t].pc = "query"
          /\ task[u].pc = "insert"
          /\ Holds(TaskCall(t))
          /\ Holds(TaskCall(u))

\* C22: a store write failure is atomic and per-task. When the batch insert
\* of a task of a parallel program fails, the task returns a failed outcome
\* that carries the error, and none of the rows of its batch is in the
\* table: the tables are as the run found them. (Violated: see
\* execute_batch of main_parallel_duckdb.py.)
C22_BatchFailureIsAtomic ==
    (/\ program \in Parallel
     /\ last # None
     /\ last[1].batches # <<>>
     /\ last[1].result[1].message \in {"OperationalError", "ForeignKeyViolation"}) =>
        /\ ~last[1].result[1].success
        /\ tables = snapshot

\* Whether the record is newer than the watermark the last call read, or the
\* call read none.
Filtered(e) ==
    /\ WellFormed(LastEndpoint, e)
    /\ last[1].last_date = None \/ RecordTime(e.key) > last[1].last_date[1]

\* C23: single batch per task. A task of a parallel program makes at most
\* one batched insert call; the call carries the whole values_list, which
\* holds every well-formed record of the payload that passed the watermark
\* filter and nothing else; and no call is made when no record passed.
C23_SingleBatch ==
    (program \in Parallel /\ last # None) =>
        /\ Len(last[1].batches) <= 1
        /\ last[1].batches # <<>> =>
              /\ last[1].batches[1] = last[1].values_list
              /\ \A i \in 1..Len(LastSeries) :
                    Filtered(LastSeries[i]) => Submitted(LastSeries[i])
              /\ \A j \in 1..Len(last[1].values_list) :
                    \E i \in 1..Len(LastSeries) :
                        /\ Filtered(LastSeries[i])
                        /\ last[1].values_list[j].date_time = SubmittedString(LastSeries[i])
                        /\ last[1].values_list[j].v = LastSeries[i].values.v
        /\ (\A i \in 1..Len(LastSeries) : ~Filtered(LastSeries[i])) =>
              last[1].batches = <<>>

\* A task that read a watermark has made its one call, with the two records
\* of its payload, and the insert has gone through.
C23_Witness ==
    /\ program \in Parallel
    /\ last # None
    /\ Len(last[1].batches) = 1
    /\ Len(last[1].batches[1]) = 2
    /\ Len(LastSeries) = 2
    /\ last[1].last_date # None
    /\ last[1].result[1].success

\* Whether the call is inside execute_query or execute_batch.
InStoreCall(who) ==
    \/ \E i \in 1..Len(symbols) :
          who = EnsureCall(i) /\ mainpc = "phase1" /\ i \notin Ensured
    \/ \E t \in DOMAIN task :
          who = TaskCall(t) /\ task[t].pc \in {"query", "insert"}

\* C24: no connection leak. In main_parallel.py a connection is borrowed
\* only while its call is inside execute_query or execute_batch: it has been
\* given back when the call returns or raises, whether the statement or the
\* commit went through or failed, and when the calls are over no connection
\* is borrowed.
C24_NoConnectionLeak ==
    /\ \A b \in borrowed : InStoreCall(b.who)
    /\ (mainpc = "phase2" /\ \A t \in DOMAIN task : task[t].pc = "done") =>
          borrowed = {}
    /\ Ended => borrowed = {}

\* A watermark query, a batch insert and a company insert have failed in the
\* store, every task has returned, and the pool has all its connections.
C24_Witness ==
    /\ program = "main_parallel"
    /\ mainpc = "phase2"
    /\ \A t \in DOMAIN task : task[t].pc = "done"
    /\ \E p \in ensured : ~p.ok
    /\ \E k \in 1..Len(results) : results[k].message = "OperationalError"
    /\ last # None
    /\ last[1].wm_error
    /\ last[1].batches # <<>>
    /\ borrowed = {}

\* The rows the run has added to the table of the last call's pair.
AddedRows == BagToSet(LastTable) \ BagToSet(snapshot[LastEndpoint])

\* C25 as stated: no backfill below the watermark. With rows up to T in the
\* table of the pair, no row a task of a parallel program adds has a
\* timestamp at or below T. (Violated when the watermark query fails: the
\* writer then goes on without a watermark.)
C25_NoBackfillAsStated ==
    (program \in Parallel /\ last # None /\ FoundWatermark # None) =>
        \A r \in AddedRows : r.ts > FoundWatermark[1]

\* C25: no backfill below the watermark. With rows up to T in the table of
\* the pair and a watermark query that succeeds, no row a task of a parallel
\* program adds has a timestamp at or below T, well-formed records of the
\* payload that are at or below T and not in the table included.
C25_NoBackfill ==
    (program \in Parallel /\ last # None /\ FoundWatermark # None
        /\ ~last[1].wm_error) =>
        \A r \in AddedRows : r.ts > FoundWatermark[1]

\* The payload has a well-formed record below T that the table does not
\* hold and a newer one; the task has written the newer one only.
C25_Witness ==
    /\ program \in Parallel
    /\ last # None
    /\ FoundWatermark # None
    /\ ~last[1].wm_error
    /\ last[1].result[1].success
    /\ AddedRows # {}
    /\ \E i \in 1..Len(LastSeries) :
          /\ WellFormed(LastEndpoint, LastSeries[i])
          /\ RecordTime(LastSeries[i].key) < FoundWatermark[1]
          /\ ~HasKey(LastTable, LastSymbol, RecordTime(LastSeries[i].key))

\* C26: same-pair concurrent tasks. With the same symbol twice in the list,
\* in every interleaving of the two tasks of the pair every table has one
\* row per (symbol, timestamp), no task fails, and when both have returned
\* from the same payload every record of it that is newer than the
\* watermark the run found has its one row.
C26_SamePairTasks ==
    /\ \A e \in EndpointSet :
          \A r, q \in BagToSet(tables[e]) :
              /\ CopiesIn(r, tables[e]) = 1
              /\ (r.symbol = q.symbol /\ r.ts = q.ts) => r = q
    /\ \A k \in 1..Len(results) : results[k].success
    /\ (Len(results) = Len(task) /\ \A t \in DOMAIN task : api[t] = api[1]) =>
          \A t \in DOMAIN task :
              \A i \in 1..Len(nested_series(api[t][1])) :
                  LET e == nested_series(api[t][1])[i]
                      T == check_last_date(snapshot[TaskEndpoint(t)], TaskSymbol(t))
                  IN  (T = None \/ RecordTime(e.key) > T[1]) =>
                          HasKey(tables[TaskEndpoint(t)], TaskSymbol(t),
                                 RecordTime(e.key))

\* Both tasks got the same payload and both have returned. The one that
\* returned last read the watermark the run found, so before the other
\* wrote, and made its insert call, so after the other's rows were there.
C26_Witness ==
    /\ symbols[1] = symbols[2]
    /\ Len(results) = 2
    /\ \A k \in 1..Len(results) : results[k].success
    /\ api[1] = api[2]
    /\ last # None
    /\ last[1].batches # <<>>
    /\ last[1].last_date = FoundWatermark
    /\ tables # snapshot
    /\ BagCardinality(LastTable) =
          BagCardinality(snapshot[LastEndpoint]) + Len(last[1].values_list)

\* The instant the program's SMA loop compares against the watermark: the
\* key as the program parses it.
ComparedInstant(key) ==
    IF program = "main_parallel_duckdb"
    THEN sma_parse_duckdb(key).dt
    ELSE sma_parse_postgres(key).dt

\* C27: the stored SMA timestamp equals the parsed key. When a task of a
\* parallel program has written its SMA batch, every full-timestamp key of
\* the payload that is well-formed and passed the watermark test has a row
\* at the instant that was compared against the watermark, seconds
\* included. (Violated: timestamp_str of main_parallel_duckdb.py drops the
\* seconds of a key whose hour and minute are 0.)
C27_StoredEqualsCompared ==
    (/\ program \in Parallel
     /\ last # None
     /\ LastEndpoint = "SMA"
     /\ last[1].batches # <<>>
     /\ last[1].result[1].success) =>
        \A i \in 1..Len(LastSeries) :
            LET e == LastSeries[i]
            IN  (/\ e.key.fmt = "full"
                 /\ e.values.kind = "ok"
                 /\ ~AtOrBelow(ComparedInstant(e.key), last[1].last_date)) =>
                    HasKey(LastTable, LastSymbol, ComparedInstant(e.key))

\* C28: task write frame. Every step of a task of a parallel program for
\* (symbol s, dataset d), whether the task goes on to succeed or to fail,
\* leaves the companies table and the tables of the other datasets as they
\* are, keeps every row of the table of d, and adds to it rows of symbol s
\* only.
C28_TaskWriteFrame ==
    [][\A t \in DOMAIN task :
          (/\ program \in Parallel
           /\ mainpc = "phase2"
           /\ mainpc' = "phase2"
           /\ task'[t] # task[t]) =>
              /\ companies' = companies
              /\ \A e \in EndpointSet \ {TaskEndpoint(t)} : tables'[e] = tables[e]
              /\ \A r \in BagToSet(tables[TaskEndpoint(t)]) :
                    CopiesIn(r, tables'[TaskEndpoint(t)])
                        = CopiesIn(r, tables[TaskEndpoint(t)])
              /\ \A r \in BagToSet(tables'[TaskEndpoint(t)]) :
                    r \in BagToSet(tables[TaskEndpoint(t)]) \/ r.symbol = TaskSymbol(t)]_vars

\* On a store that fails operations, a task of the second symbol has
\* written its row to the table of its dataset beside the first symbol's,
\* another task's insert has failed, and the table of the other dataset
\* and the companies table are as they were.
C28_Witness ==
    /\ program \in Parallel
    /\ faults # {}
    /\ last # None
    /\ LastSymbol = symbols[2]
    /\ last[1].result[1].success
    /\ last[1].batches # <<>>
    /\ \E k \in 1..Len(results) : results[k].message = "OperationalError"
    /\ \E r \in BagToSet(LastTable) \ BagToSet(snapshot[LastEndpoint]) :
          r.symbol = symbols[2]
    /\ \E r \in BagToSet(LastTable) : r.symbol = symbols[1]
    /\ \E e \in EndpointSet \ {LastEndpoint} : tables[e] = snapshot[e] /\ tables[e] # EmptyBag

=============================================================================
